---- MODULE Spec2Model ----
(***************************************************************************)
(* Model of pai-browser-use: the context-variable bridge that injects the  *)
(* browser session into tool functions (_tools.py), the toolset adapter's  *)
(* lifecycle and endpoint resolution (toolset.py) and the tool bodies that *)
(* drive the CDP connection (tools/interaction.py, tools/state.py).        *)
(***************************************************************************)
EXTENDS Integers, Sequences, FiniteSets, TLC

\* Python's None, and None where a connection handle is expected.
None == "None"
NoConn == 0

\* The two toolset instances and the two logical call chains (asyncio tasks,
\* each with its own copy of the context) the model runs.
Toolsets == {"A", "B"}
Chains == {"c1", "c2"}

\* Bounds of the model.
MaxConns == 2       \* protocol connections ever established
MaxTeardowns == 2   \* teardown attempts counted per connection
MaxUrlLen == 6      \* length of the endpoint strings enumerated
MaxText == 2        \* length of the text argument of type_text
MaxHistory == 2     \* entries a session's navigation_history may reach
MaxEntries == 3     \* entries of the browser's own history list
MaxSegs == 22       \* segments the image segmenter may yield for one capture

VARIABLES
    cdp_client,   \* toolset -> its _cdp_client handle (a connection id or NoConn)
    session,      \* toolset -> fields of its _browser_session
    life,         \* toolset -> "unopened" | "open" | "closed" (history of enter/exit)
    conns,        \* connection id -> [status, teardowns, owner]
    ctx,          \* context slot -> value of _browser_session_context
    frame,        \* chain -> the tool invocation suspended on it, or NoFrame
    outcome,      \* chain -> how the last call made on it ended
    event,        \* the call or step the last transition performed
    resolved,     \* input and result of the last standalone endpoint resolution
    last_call,    \* the last tool call run to completion: inputs, calls, result
    segmented,    \* input and result of the last split_image_data call
    config        \* arguments, environment and result of the last construction

vars == <<cdp_client, session, life, conns, ctx, frame, outcome, event, resolved,
          last_call, segmented, config>>

----------------------------------------------------------------------------
(* Endpoint resolution: toolset.py get_cdp_websocket_url.  Strings are     *)
(* sequences of characters.                                                *)

Chars == {"w", "s", ":", "/"}

WsPrefix == <<"w", "s", ":", "/", "/">>
WssPrefix == <<"w", "s", "s", ":", "/", "/">>

\* str.startswith
StartsWith(s, p) == Len(s) >= Len(p) /\ SubSeq(s, 1, Len(p)) = p

RECURSIVE SeqsUpTo(_, _)
SeqsUpTo(S, n) ==
    IF n = 0 THEN {<<>>}
    ELSE LET shorter == SeqsUpTo(S, n - 1)
         IN  shorter \cup {Append(s, ch) : s \in {x \in shorter : Len(x) = n - 1}, ch \in S}

Endpoints == SeqsUpTo(Chars, MaxUrlLen)

\* The values the webSocketDebuggerUrl field may carry.
FieldValues == {WsPrefix, <<>>}

\* What the decoded JSON body may be: an object with or without the field, or a
\* non-object for which `"webSocketDebuggerUrl" in data` is true (a string
\* containing it, a list holding it), false (another string or list) or itself
\* a TypeError (a number, null).
JsonBodies ==
    [has : {TRUE}, type : {"object"}, value : FieldValues]
    \cup [has : {FALSE}, type : {"object"}, value : {<<>>}]
    \cup [has : BOOLEAN, type : {"string", "list"}, value : {<<>>}]
    \cup [has : {FALSE}, type : {"number", "null"}, value : {<<>>}]

NoBody == [has |-> FALSE, type |-> "none", value |-> <<>>]

\* What httpx.get may do: raise, answer with an error status, answer with a
\* body that is not JSON, or answer with JSON.
HttpResponses ==
    [data : {NoBody}, kind : {"transport_error", "status_error", "not_json"}]
    \cup [data : JsonBodies, kind : {"json"}]

NoResponse == [data |-> NoBody, kind |-> "no_request"]

ResolveError(exc, gets) == [exc |-> exc, gets |-> gets, tag |-> "error", url |-> <<>>]
ResolveUrl(url, gets) == [exc |-> None, gets |-> gets, tag |-> "url", url |-> url]

\* Mutation of get_cdp_websocket_url: only the ws:// prefix is recognised.
GetCdpWebsocketUrlWsOnly(cdp_url, resp) ==
    IF StartsWith(cdp_url, WsPrefix)
    THEN ResolveUrl(cdp_url, 0)
    ELSE IF resp.kind = "json" /\ resp.data.type = "object" /\ resp.data.has
         THEN ResolveUrl(resp.data.value, 1)
         ELSE ResolveError("ValueError", 1)

\* get_cdp_websocket_url(cdp_url), with resp what httpx.get does if it is called.
\* gets counts the HTTP requests made.
GetCdpWebsocketUrl(cdp_url, resp) ==
    IF StartsWith(cdp_url, WsPrefix) \/ StartsWith(cdp_url, WssPrefix)
    THEN ResolveUrl(cdp_url, 0)
    ELSE CASE resp.kind = "transport_error" -> ResolveError("TransportError", 1)
           [] resp.kind = "status_error" -> ResolveError("HTTPStatusError", 1)
           [] resp.kind = "not_json" -> ResolveError("ValueError", 1)
           [] resp.kind = "json" ->
                IF resp.data.type \in {"number", "null"}
                THEN ResolveError("TypeError", 1)        \* `in` on a non-container
                ELSE IF ~resp.data.has
                THEN ResolveError("ValueError", 1)       \* field absent
                ELSE IF resp.data.type = "object"
                THEN ResolveUrl(resp.data.value, 1)
                ELSE ResolveError("TypeError", 1)        \* str/list indexed by a str

----------------------------------------------------------------------------
(* The toolset adapter: toolset.py BrowserUseToolset.                      *)

\* The endpoint each toolset was constructed with: A a socket endpoint, B an
\* HTTP metadata endpoint.
CdpUrl(t) ==
    IF t = "A" THEN WsPrefix \o <<"a">>
    ELSE <<"h", "t", "t", "p", ":", "/", "/", "b">>

\* The values of window.location.href and document.title a page may report.
Urls == {"u1", "u2"}
Titles == {"t1", "t2"}

\* BrowserSession(): no connection and no page yet, nothing visited.
NewSession ==
    [cdp_client |-> NoConn, page |-> None, current_url |-> "", current_title |-> "",
     navigation_history |-> <<>>, last_screenshot_timestamp |-> None]

NoEvent == [op |-> "init", who |-> None, raised |-> FALSE, info |-> None]
\* No tool invocation is suspended on the chain.
\* The event of a step of a tool call on chain c.
ToolEvent(c) == [op |-> "tool", who |-> c, raised |-> FALSE, info |-> None]

NoFrame ==
    [session |-> None, n |-> 0, pc |-> "idle", tool |-> None,
     owner |-> None, wrapped |-> FALSE, token |-> None, pre |-> None,
     clear_first |-> FALSE, i |-> 0, conn |-> NoConn, issued |-> FALSE, outside |-> FALSE]

NoOutcome == [session |-> None, value |-> None, kind |-> "none", exc |-> None,
              tool |-> None, owner |-> None, pre |-> None, issued |-> FALSE,
              outside |-> FALSE, via |-> None, body |-> None]
\* No tool call has been run to completion yet.
NoCall == [tool |-> None]
\* split_image_data has not been called; no toolset has been constructed.
NoSplit == [called |-> FALSE]
NoConfig == [constructed |-> FALSE]
NoResolved == [resp |-> NoResponse, endpoint |-> <<>>, result |-> ResolveError(None, 0)]

Init ==
    /\ cdp_client = [t \in Toolsets |-> NoConn]
    /\ session = [t \in Toolsets |-> NewSession]
    /\ life = [t \in Toolsets |-> "unopened"]
    /\ conns = <<>>
    /\ ctx = [c \in Chains |-> None]
    /\ frame = [c \in Chains |-> NoFrame]
    /\ outcome = [c \in Chains |-> NoOutcome]
    /\ event = NoEvent
    /\ resolved = NoResolved
    /\ last_call = NoCall
    /\ segmented = NoSplit
    /\ config = NoConfig

\* What get_cdp_websocket_url(cdp_url) may give, over all the HTTP server may do.
Resolutions(cdp_url) == {GetCdpWebsocketUrl(cdp_url, resp) : resp \in HttpResponses}

NewConn(t) == [owner |-> t, status |-> "live", teardowns |-> 0]

\* Mutation of __aenter__: the handle is stored before the connection is
\* established, so a failed connect leaves it set.
AenterHandleFirst(t) ==
    \E r \in Resolutions(CdpUrl(t)), connected \in BOOLEAN :
            /\ Len(conns) < MaxConns
            /\ r.tag = "url"
            /\ conns' = Append(conns, [NewConn(t) EXCEPT !.status =
                                          IF connected THEN "live" ELSE "closed"])
            /\ cdp_client' = [cdp_client EXCEPT ![t] = Len(conns) + 1]
            /\ life' = [life EXCEPT ![t] = IF connected THEN "open" ELSE @]
            /\ event' = [op |-> "enter", who |-> t, raised |-> ~connected,
                         info |-> IF connected THEN "opened" ELSE "connect_failed"]
            /\ UNCHANGED <<session, ctx, frame, outcome, resolved, last_call, segmented, config>>

\* __aenter__: resolve the endpoint, establish the connection, keep the handle.
\* Either step may raise; the call is not guarded by the adapter's state.
Aenter(t) ==
    \E r \in Resolutions(CdpUrl(t)), connected \in BOOLEAN :
            \/ /\ r.tag = "error"
               /\ event' = [op |-> "enter", who |-> t, raised |-> TRUE,
                            info |-> "resolve_failed"]
               /\ UNCHANGED <<cdp_client, session, life, conns, ctx, frame,
                              outcome, resolved, last_call, segmented, config>>
            \/ /\ r.tag = "url"
               /\ ~connected
               /\ event' = [op |-> "enter", who |-> t, raised |-> TRUE,
                            info |-> "connect_failed"]
               /\ UNCHANGED <<cdp_client, session, life, conns, ctx, frame,
                              outcome, resolved, last_call, segmented, config>>
            \/ /\ r.tag = "url"
               /\ connected
               /\ Len(conns) < MaxConns
               /\ conns' = Append(conns, NewConn(t))
               /\ cdp_client' = [cdp_client EXCEPT ![t] = Len(conns) + 1]
               /\ life' = [life EXCEPT ![t] = "open"]
               /\ event' = [op |-> "enter", who |-> t, raised |-> FALSE,
                            info |-> "opened"]
               /\ UNCHANGED <<session, ctx, frame, outcome, resolved, last_call, segmented, config>>

\* __aexit__: if a handle is held, tear the connection down and clear the
\* handle.  The teardown may raise, and then the handle is not cleared; the
\* connection it leaves behind may or may not still be usable.
Aexit(t) ==
    /\ life' = [life EXCEPT ![t] = IF @ = "open" THEN "closed" ELSE @]
    /\ IF cdp_client[t] = NoConn
       THEN /\ event' = [op |-> "exit", who |-> t, raised |-> FALSE, info |-> "noop"]
            /\ UNCHANGED <<cdp_client, conns>>
       ELSE LET k == cdp_client[t]
            IN  /\ conns[k].teardowns < MaxTeardowns
                /\ \E torn \in BOOLEAN, left \in {"live", "closed"} :
                      IF torn
                      THEN /\ left = "closed"
                           /\ conns' = [conns EXCEPT ![k].status = "closed",
                                                     ![k].teardowns = @ + 1]
                           /\ cdp_client' = [cdp_client EXCEPT ![t] = NoConn]
                           /\ event' = [op |-> "exit", who |-> t, raised |-> FALSE,
                                        info |-> "torn_down"]
                      ELSE /\ (conns[k].status = "closed" => left = "closed")
                           /\ conns' = [conns EXCEPT ![k].status = left,
                                                     ![k].teardowns = @ + 1]
                           /\ UNCHANGED cdp_client
                           /\ event' = [op |-> "exit", who |-> t, raised |-> TRUE,
                                        info |-> "teardown_failed"]
    /\ UNCHANGED <<session, ctx, frame, outcome, resolved, last_call, segmented, config>>

\* While the adapter is open its session is given the adapter's connection and
\* a page of it.
BindSession(t) ==
    /\ life[t] = "open"
    /\ cdp_client[t] # NoConn
    /\ session[t].cdp_client # cdp_client[t]
    /\ session' = [session EXCEPT ![t].cdp_client = cdp_client[t], ![t].page = "page"]
    /\ event' = [op |-> "bind", who |-> t, raised |-> FALSE, info |-> None]
    /\ UNCHANGED <<cdp_client, life, conns, ctx, frame, outcome, resolved, last_call, segmented, config>>

\* A standalone call of get_cdp_websocket_url.
Resolve ==
    /\ resolved.resp.kind = "no_request"
    /\ \E e \in Endpoints, resp \in HttpResponses :
        /\ resolved' = [resp |-> resp, endpoint |-> e,
                        result |-> GetCdpWebsocketUrl(e, resp)]
        /\ event' = [op |-> "resolve", who |-> None, raised |-> FALSE, info |-> None]
        /\ UNCHANGED <<cdp_client, session, life, conns, ctx, frame, outcome, last_call, segmented, config>>

NextLife == \E t \in Toolsets : Aenter(t) \/ Aexit(t) \/ BindSession(t)

SpecLife == Init /\ [][NextLife]_vars

SpecResolve == Init /\ [][Resolve]_vars

----------------------------------------------------------------------------
(* The context bridge: _tools.py.                                          *)

\* Mutation of the context variable: one process-wide slot instead of one
\* value per context.
CtxSlotShared(c) == "c1"

\* _browser_session_context is a ContextVar: every chain (task) reads and
\* writes the value of its own context.
CtxSlot(c) == c

CtxGet(cx, c) == cx[CtxSlot(c)]

\* _browser_session_context.set(browser_session)
CtxSet(cx, c, s) == [cx EXCEPT ![CtxSlot(c)] = s]

\* Mutation of the wrapper: the reset is not in a finally clause, so it is
\* skipped when the tool raises.
CtxResetNoFinally(cx, c, token, raised) ==
    IF raised THEN cx ELSE [cx EXCEPT ![CtxSlot(c)] = token]

\* finally: _browser_session_context.reset(token), whether or not the tool
\* raised; token holds the value the variable had before the set.
CtxReset(cx, c, token, raised) == [cx EXCEPT ![CtxSlot(c)] = token]

\* Mutation of get_browser_session: the None check is missing.
GetBrowserSessionNoCheck(v) == [session |-> v, exc |-> None, ok |-> TRUE]

\* get_browser_session(), v being the value of the context variable.
GetBrowserSession(v) ==
    IF v = None
    THEN [session |-> None, exc |-> "RuntimeError", ok |-> FALSE]
    ELSE [session |-> v, exc |-> None, ok |-> TRUE]

\* Mutation of build_tool: every wrapper injects the same session.
WrapperSessionShared(t) == "A"

\* The browser_session the wrapper built for toolset t's tools closes over:
\* BrowserUseToolset.__init__ passes its own _browser_session to build_tool.
WrapperSession(t) == t

\* `return await func(*args, **kwargs)` and call_tool's `return await
\* tool.call_func(...)`: the value is passed through.
WrapperReturn(v) == v

----------------------------------------------------------------------------
(* Tool bodies: tools/interaction.py, tools/navigation.py, tools/state.py. *)
(* A body is the sequence of awaits it performs; it is suspended at each   *)
(* of them.                                                                *)

Tools == {"click_element", "type_text", "execute_javascript", "get_page_content",
          "get_viewport_info"}

ClickCalls == <<"DOM.enable", "DOM.getDocument", "DOM.querySelector",
                "DOM.getBoxModel", "mousePressed", "mouseReleased", "sleep">>

ClearCalls == <<"Runtime.evaluate", "keyDown.a", "keyUp.a", "keyDown.Backspace",
                "keyUp.Backspace">>

\* go_back and go_forward: read the history, move to the neighbouring entry,
\* settle, ask the page what it shows.
HistoryCalls == <<"Page.getNavigationHistory", "Page.navigateToHistoryEntry",
                  "sleep", "Runtime.evaluate">>

\* The form tools that take a selector (tools/form.py): element location, then
\* the action on the element found.
FormCalls == <<"DOM.enable", "DOM.getDocument", "DOM.querySelector", "form.action">>

\* The awaits of a tool body on its success path, in order.
Program(tool, clear_first, n) ==
    CASE tool = "click_element" -> ClickCalls
      [] tool = "type_text" ->
            ClickCalls \o (IF clear_first THEN ClearCalls ELSE <<>>)
                       \o [k \in 1..n |-> "insertText"]
      [] tool = "execute_javascript" -> <<"Runtime.evaluate">>
      [] tool = "get_page_content" -> <<"Runtime.evaluate">>
      [] tool = "get_viewport_info" -> <<>>
      [] tool = "scroll_to" -> <<"Runtime.evaluate">>
      [] tool = "navigate_to_url" ->
            <<"Page.enable", "Page.navigate", "sleep", "Runtime.evaluate">>
      [] tool \in {"go_back", "go_forward"} -> HistoryCalls
      [] tool = "reload_page" -> <<"Page.reload", "sleep", "Runtime.evaluate">>
      [] tool = "get_page_info" -> <<"Runtime.evaluate">>
      [] tool = "take_screenshot" -> <<"Page.captureScreenshot">>
      [] tool = "take_element_screenshot" ->
            <<"DOM.enable", "DOM.getDocument", "DOM.querySelector",
              "DOM.getBoxModel", "Page.captureScreenshot">>
      [] tool \in {"select_option", "upload_file"} -> FormCalls

\* The argument combinations explored: clear_first and len(text) of type_text
\* (the empty text and a text of MaxText characters), the url of
\* navigate_to_url, full_page of take_screenshot.
ToolArgs(tool) ==
    CASE tool = "type_text" ->
            [n : {0, MaxText}, url : {""}, clear_first : BOOLEAN, full_page : {FALSE}]
      [] tool = "navigate_to_url" ->
            [n : {0}, url : Urls, clear_first : {FALSE}, full_page : {FALSE}]
      [] tool = "take_screenshot" ->
            [n : {0}, url : {""}, clear_first : {FALSE}, full_page : BOOLEAN]
      [] OTHER -> {[n |-> 0, url |-> "", clear_first |-> FALSE, full_page |-> FALSE]}

\* The tools whose body is wrapped in try / except Exception.
Catches(tool) ==
    tool \in {"click_element", "type_text", "execute_javascript", "scroll_to",
              "navigate_to_url", "go_back", "go_forward", "reload_page",
              "take_screenshot", "take_element_screenshot",
              "select_option", "upload_file"}

\* The tools that answer a page's url and title from Runtime.evaluate.
InfoTools == {"navigate_to_url", "go_back", "go_forward", "reload_page",
              "get_page_info"}

\* What an awaited call may come back with.
Responses(tool, call) ==
    CASE call = "sleep" -> {"ok"}
      [] call = "DOM.querySelector" -> {"ok", "miss", "raise"}
      [] call = "Runtime.evaluate" /\ tool \in {"execute_javascript", "scroll_to"} ->
            {"ok", "exception_details", "raise"}
      [] call = "Runtime.evaluate" /\ tool = "get_page_content" ->
            {"ok", "malformed", "raise"}
      [] call = "Runtime.evaluate" /\ tool = "navigate_to_url" ->
            {"ok", "malformed", "raise", "timeout"}
      [] call = "Runtime.evaluate" /\ tool \in InfoTools \ {"navigate_to_url"} ->
            {"ok", "malformed", "raise"}
      [] call = "Page.getNavigationHistory" -> {"ok", "boundary", "raise"}
      [] call = "Page.captureScreenshot" -> {"ok", "malformed", "raise"}
      [] call \in {"Page.enable", "Page.navigate"} -> {"ok", "raise", "timeout"}
      [] OTHER -> {"ok", "raise"}

\* session.cdp_client.send...: possible only through a session that holds a
\* client whose connection is up.
CanSend(s) ==
    /\ s \in Toolsets
    /\ session[s].cdp_client # NoConn
    /\ conns[session[s].cdp_client].status = "live"

\* The exception a send raises where it cannot be issued.
SendExc(s) ==
    IF s \notin Toolsets \/ session[s].cdp_client = NoConn
    THEN "AttributeError" ELSE "ClientNotStarted"

\* What the body of tool f.tool, stopped at call f.i in the way `how`, gives
\* its caller: a result (with its status) or an exception.
BodyResult(f, how, exc) ==
    CASE how = "end" ->
            [kind |-> "returned", exc |-> None,
             status |-> CASE f.tool = "get_page_content" -> "content"
                          [] f.tool = "get_viewport_info" -> "viewport"
                          [] f.tool = "get_page_info" -> "page_info"
                          [] OTHER -> "success"]
      [] how = "miss" -> [kind |-> "returned", exc |-> None, status |-> "not_found"]
      [] how = "boundary" -> [kind |-> "returned", exc |-> None, status |-> "error"]
      [] how = "timeout" ->
            [kind |-> "returned", exc |-> "TimeoutError", status |-> "timeout"]
      [] how = "exception_details" ->
            [kind |-> "returned", exc |-> "exceptionDetails", status |-> "error"]
      [] how \in {"raise", "malformed", "split_error"} ->
            IF Catches(f.tool)
            THEN [kind |-> "returned", exc |-> exc, status |-> "error"]
            ELSE [kind |-> "raised", exc |-> exc, status |-> None]

\* The call ends: the wrapper's finally clause runs (for a call made through
\* the wrapper) and the caller gets the result or the exception.
Finish(c, f, how, exc, cx) ==
    LET b == BodyResult(f, how, exc)
    IN  /\ ctx' = IF f.wrapped
                  THEN CtxReset(cx, c, f.token, b.kind = "raised")
                  ELSE cx
        /\ frame' = [frame EXCEPT ![c] = NoFrame]
        /\ outcome' = [outcome EXCEPT ![c] =
              [session |-> f.session,
               value |-> IF f.wrapped THEN WrapperReturn(b.status) ELSE b.status,
               kind |-> b.kind,
               exc |-> b.exc,
               tool |-> f.tool,
               owner |-> f.owner,
               pre |-> f.pre,
               issued |-> f.issued,
               outside |-> f.outside,
               via |-> IF f.wrapped THEN "call_tool" ELSE "direct",
               body |-> b.status]]
        /\ event' = ToolEvent(c)

\* The body goes on to its call number i: it ends if there is none, raises if
\* the call cannot be sent, and is suspended on it otherwise.
Proceed(c, f, i, cx) ==
    LET prog == Program(f.tool, f.clear_first, f.n)
    IN  IF f.session = None
        THEN Finish(c, f, "raise", "AttributeError", cx)
        ELSE IF i > Len(prog)
        THEN Finish(c, f, "end", None, cx)
        ELSE IF prog[i] # "sleep" /\ ~CanSend(f.session)
        THEN Finish(c, f, "raise", SendExc(f.session), cx)
        ELSE /\ frame' = [frame EXCEPT ![c] =
                    [f EXCEPT !.pc = prog[i], !.i = i,
                              !.conn = IF prog[i] = "sleep" THEN NoConn
                                       ELSE session[f.session].cdp_client,
                              !.issued = @ \/ prog[i] # "sleep"]]
             /\ ctx' = cx
             /\ outcome' = [outcome EXCEPT ![c] = NoOutcome]
             /\ event' = ToolEvent(c)

\* call_tool -> tool.call_func -> wrapper: the session is installed, then the
\* body runs to its first await (or to its end).
Invoke(c, t, tool, args) ==
    /\ frame[c].pc = "idle"
    /\ LET token == CtxGet(ctx, c)
           cx == CtxSet(ctx, c, WrapperSession(t))
           g == GetBrowserSession(CtxGet(cx, c))
           f == [NoFrame EXCEPT
                    !.tool = tool, !.owner = t, !.session = g.session,
                    !.wrapped = TRUE, !.token = token, !.pre = CtxGet(ctx, c),
                    !.clear_first = args.clear_first, !.n = args.n,
                    !.outside = (life[t] # "open")]
       IN  IF g.ok
           THEN Proceed(c, f, 1, cx)
           ELSE /\ ctx' = CtxReset(cx, c, token, TRUE)
                /\ frame' = frame
                /\ outcome' = [outcome EXCEPT ![c] =
                      [NoOutcome EXCEPT !.kind = "raised", !.via = "call_tool",
                                        !.tool = tool, !.owner = t,
                                        !.exc = g.exc, !.outside = f.outside]]
                /\ event' = ToolEvent(c)
    /\ UNCHANGED <<cdp_client, session, life, conns, resolved, last_call, segmented, config>>

\* A tool function called directly, not through a wrapper: nothing installs a
\* session, and get_browser_session() stands before the body's try.
DirectCall(c, tool, args) ==
    /\ frame[c].pc = "idle"
    /\ LET g == GetBrowserSession(CtxGet(ctx, c))
           f == [NoFrame EXCEPT
                    !.tool = tool, !.session = g.session, !.pre = CtxGet(ctx, c),
                    !.clear_first = args.clear_first, !.n = args.n]
       IN  IF g.ok
           THEN Proceed(c, f, 1, ctx)
           ELSE /\ outcome' = [outcome EXCEPT ![c] =
                      [NoOutcome EXCEPT !.kind = "raised", !.via = "direct",
                                        !.tool = tool, !.exc = g.exc]]
                /\ event' = ToolEvent(c)
                /\ UNCHANGED <<ctx, frame>>
    /\ UNCHANGED <<cdp_client, session, life, conns, resolved, last_call, segmented, config>>

\* The call a body is suspended on comes back; the body runs on to its next
\* await or to its end.  A call in flight on a connection that has gone down
\* can only fail.
Step(c) ==
    /\ frame[c].pc # "idle"
    /\ LET f == frame[c]
       IN  \E resp \in Responses(f.tool, f.pc) :
              /\ (f.conn # NoConn /\ conns[f.conn].status # "live" => resp = "raise")
              /\ IF resp = "ok"
                 THEN Proceed(c, f, f.i + 1, ctx)
                 ELSE Finish(c, f, resp, "ProtocolError", ctx)
    /\ UNCHANGED <<cdp_client, session, life, conns, resolved, last_call, segmented, config>>

\* Toolset t's tools dispatched on chain c.
Dispatch(c, t) ==
    \/ \E tool \in Tools : \E args \in ToolArgs(tool) : Invoke(c, t, tool, args)
    \/ Step(c)

\* One adapter's lifecycle, under any sequence of enter and exit calls, with its
\* tools dispatched on one chain.
Next == Aenter("B") \/ Aexit("B") \/ BindSession("B") \/ Dispatch("c1", "B")

Spec == Init /\ [][Next]_vars

\* The toolset whose tools a chain dispatches: one in-flight invocation per
\* session, the two toolsets running on independent chains.
ChainToolset(c) == IF c = "c1" THEN "A" ELSE "B"

\* Each adapter entered at most once and not exited; each chain dispatches its
\* toolset's tools, and calls tool functions directly.
NextBridge ==
    \/ \E t \in Toolsets : (life[t] = "unopened" /\ Aenter(t)) \/ BindSession(t)
    \/ \E c \in Chains : Dispatch(c, ChainToolset(c))
    \/ \E c \in Chains, tool \in Tools : \E args \in ToolArgs(tool) :
          DirectCall(c, tool, args)

SpecBridge == Init /\ [][NextBridge]_vars

----------------------------------------------------------------------------
(* Tool calls run to completion: what one `await toolset.call_tool(...)`   *)
(* does to the session and gives back, as a function of what the browser   *)
(* answers.                                                                *)

\* The tools of the three tool modules.
Catalog ==
    {"navigate_to_url", "go_back", "go_forward", "reload_page",
     "click_element", "type_text", "execute_javascript", "scroll_to",
     "get_page_info", "get_page_content", "take_screenshot",
     "take_element_screenshot", "get_viewport_info"}

\* The selector-taking tools of tools/form.py.
FormTools == {"select_option", "upload_file"}

SelectorTools == {"click_element", "type_text", "take_element_screenshot"} \cup FormTools

ScreenshotTools == {"take_screenshot", "take_element_screenshot"}

\* The status vocabulary of a result record.
Statuses == {"success", "not_found", "timeout", "error"}

\* `segments[:20]`, `len(segments) > 20`.
SegmentCap == 20

\* The answer of DOM.querySelector: the nodeId key may be absent, 0, or a node.
NodeIds == {[has |-> FALSE, id |-> 0], [has |-> TRUE, id |-> 0], [has |-> TRUE, id |-> 1]}

\* Mutation of the node test: only an absent nodeId counts as no node.
NodeMissingAbsentOnly(node) == ~node.has

\* node_id = result.get("nodeId"); `not node_id or node_id == 0`
NodeMissing(node) == ~node.has \/ node.id = 0

\* The answer of Page.getNavigationHistory: currentIndex and len(entries).
Hists ==
    {h \in [currentIndex : 0..(MaxEntries - 1), entries : 1..MaxEntries] :
        h.currentIndex < h.entries}

\* go_back: `current_index > 0`
CanGoBack(h) == h.currentIndex > 0

\* Mutation of go_forward's test: off by one, the newest entry has a next one.
CanGoForwardOffByOne(h) == h.currentIndex < h.entries

\* go_forward: `current_index < len(history["entries"]) - 1`
CanGoForward(h) == h.currentIndex < h.entries - 1

\* The value of the url/title script: a JSON text with both keys, nothing
\* json.loads(result["result"]["value"]) can decode (no url, no title), or
\* a JSON object that has "url" and lacks "title" (JSON.stringify leaves out
\* a title the page has made undefined).  ok says that the body reads both
\* keys without a KeyError.
Infos ==
    [url : Urls, ok : {TRUE}, title : Titles]
        \cup {[url |-> "", ok |-> FALSE, title |-> ""],
              [url |-> "u2", ok |-> FALSE, title |-> ""]}

\* split_image_data's result for a capture of n tiles, top to bottom.
Segments(n) == [k \in 1..n |-> k]

\* The numbers of tiles explored: one, and those around the cap.
SegCounts == {1} \cup ((SegmentCap - 1)..MaxSegs)

\* The value field of a Runtime.evaluate response to a script: a value, or None
\* when the response has no result or the result no value.
ScriptValues == {"v1", "v2", None}

\* The border quad of a DOM.getBoxModel response: the four corners of the
\* element's border box as x1, y1, ..., x4, y4, clockwise from the top left
\* corner of the untransformed box.  An upright box, an upright box whose
\* corner sums are odd, and a box turned by a quarter of a right angle.
Borders == {<<0, 0, 4, 0, 4, 2, 0, 2>>,
            <<1, 1, 4, 1, 4, 4, 1, 4>>,
            <<2, 0, 4, 2, 2, 4, 0, 2>>}

\* The point click_element sends with both pointer events.  The code halves
\* the sums with a true division; the model keeps the point in half pixels,
\* x2 = 2 * x and y2 = 2 * y, to stay in the integers.
ClickPointCorner(border) ==
    [x2 |-> 2 * border[1], y2 |-> 2 * border[2]]

ClickPoint(border) ==
    [x2 |-> border[1] + border[5], y2 |-> border[2] + border[6]]

\* The Input.dispatchMouseEvent calls among the calls a body issued, with the
\* type and the point each one carries.
PointerEvents(issued, border) ==
    LET mouse == SelectSeq(issued, LAMBDA pc : pc \in {"mousePressed", "mouseReleased"})
    IN  [k \in 1..Len(mouse) |-> [type |-> mouse[k], at |-> ClickPoint(border)]]

\* Mutation of the select-all key: the Ctrl modifier on every platform.
ModifiersCtrlAlways(is_mac) == 2

\* `"modifiers": 8 if is_mac else 2`: 8 is Cmd, 2 is Ctrl.
Modifiers(is_mac) == IF is_mac THEN 8 ELSE 2

\* The parameters of one Input.dispatchKeyEvent call of type_text.  Only the
\* key-down of 'a' passes modifiers; 0, the protocol's default, stands for
\* the parameter left out.
KeyEvent(pc, is_mac) ==
    CASE pc = "keyDown.a" -> [type |-> "keyDown", key |-> "a", modifiers |-> Modifiers(is_mac)]
      [] pc = "keyUp.a" -> [type |-> "keyUp", key |-> "a", modifiers |-> 0]
      [] pc = "keyDown.Backspace" -> [type |-> "keyDown", key |-> "Backspace", modifiers |-> 0]
      [] pc = "keyUp.Backspace" -> [type |-> "keyUp", key |-> "Backspace", modifiers |-> 0]

\* The Input.dispatchKeyEvent calls among the calls a body issued.  is_mac is
\* what _is_mac returned: the value of the Runtime.evaluate response.
KeyEvents(issued, is_mac) ==
    LET strokes == SelectSeq(issued, LAMBDA pc : pc \in {"keyDown.a", "keyUp.a",
                                       "keyDown.Backspace", "keyUp.Backspace"})
    IN  [k \in 1..Len(strokes) |-> KeyEvent(strokes[k], is_mac)]

\* The text argument of type_text of length n: distinct characters, so that
\* the order of insertion shows.
Alphabet == <<"a", "b", "c", "d">>
Text(n) == SubSeq(Alphabet, 1, n)

\* `for char in text: await ...Input.insertText(params={"text": char})`: the
\* k-th insertText issued carries the k-th character.
Inserted(issued, text) ==
    LET typed == SelectSeq(issued, LAMBDA pc : pc = "insertText")
    IN  [k \in 1..Len(typed) |-> text[k]]

\* What the browser answers during one call: the call that raises (0: none)
\* and the exception's kind, and the data of the calls that answer.  late
\* says that the page took longer to load than the timeout argument allows;
\* navigate_to_url starts no timer and passes timeout to no call, so late
\* decides nothing in the body.
DefaultEnv(tool) ==
    [value |-> "v1", exc |-> "raise",
     info |-> [url |-> "u1", ok |-> TRUE, title |-> "t1"],
     node |-> [has |-> TRUE, id |-> 1],
     fail |-> 0,
     hist |-> IF tool = "go_forward"
              THEN [currentIndex |-> 0, entries |-> 2]
              ELSE [currentIndex |-> 1, entries |-> 2],
     nseg |-> 1,
     reply |-> "ok",
     late |-> FALSE,
     box |-> <<0, 0, 4, 0, 4, 2, 0, 2>>,
     mac |-> FALSE]

Envs(tool, args) ==
    LET base == DefaultEnv(tool)
        prog == Program(tool, args.clear_first, args.n)
        answers ==
            CASE tool \in {"go_back", "go_forward"} ->
                    {[base EXCEPT !.hist = h] : h \in Hists}
                        \cup {[base EXCEPT !.info = i] : i \in Infos}
              [] tool = "navigate_to_url" ->
                    {[base EXCEPT !.info = i] : i \in Infos}
                        \cup {[base EXCEPT !.late = TRUE]}
              [] tool \in {"reload_page", "get_page_info"} ->
                    {[base EXCEPT !.info = i] : i \in Infos}
              [] tool \in {"execute_javascript", "scroll_to"} ->
                    {[base EXCEPT !.reply = r, !.value = v] :
                        r \in {"ok", "exception_details"}, v \in ScriptValues}
              [] tool = "get_page_content" ->
                    {[base EXCEPT !.reply = r] : r \in {"ok", "malformed"}}
              [] tool = "take_screenshot" ->
                    {[base EXCEPT !.nseg = k] : k \in SegCounts}
                        \cup {[base EXCEPT !.reply = r] :
                                 r \in {"malformed", "split_error"}}
              [] tool = "take_element_screenshot" ->
                    {[base EXCEPT !.node = nd] : nd \in NodeIds}
                        \cup {[base EXCEPT !.nseg = k] : k \in SegCounts}
                        \cup {[base EXCEPT !.reply = r] :
                                 r \in {"malformed", "split_error"}}
              [] tool = "click_element" ->
                    {[base EXCEPT !.node = nd] : nd \in NodeIds}
                        \cup {[base EXCEPT !.box = b] : b \in Borders}
              [] tool = "type_text" ->
                    {[base EXCEPT !.node = nd] : nd \in NodeIds}
                        \cup {[base EXCEPT !.mac = TRUE]}
              [] tool \in FormTools ->
                    {[base EXCEPT !.node = nd] : nd \in NodeIds}
              [] OTHER -> {base}
        failures ==
            {[base EXCEPT !.fail = i, !.exc = x] :
                i \in 1..Len(prog), x \in {"raise", "timeout"}}
    IN  answers \cup {e \in failures : e.exc \in Responses(tool, prog[e.fail])}

\* How an answered call is taken by the body that made it.  A capture is
\* taken well ("ok"), has no data the body can decode ("malformed": no data
\* key, or base64.b64decode raises), or decodes to bytes split_image_data
\* raises on ("split_error").
Classify(tool, pc, env) ==
    CASE pc = "DOM.querySelector" ->
            IF NodeMissing(env.node) THEN "miss" ELSE "ok"
      [] pc = "Page.getNavigationHistory" /\ tool = "go_back" ->
            IF CanGoBack(env.hist) THEN "ok" ELSE "boundary"
      [] pc = "Page.getNavigationHistory" /\ tool # "go_back" ->
            IF CanGoForward(env.hist) THEN "ok" ELSE "boundary"
      [] pc = "Runtime.evaluate" /\ tool \in InfoTools ->
            IF env.info.ok THEN "ok" ELSE "malformed"
      [] pc = "Runtime.evaluate"
            /\ tool \in {"execute_javascript", "scroll_to", "get_page_content"} ->
            env.reply
      [] pc = "Page.captureScreenshot" -> env.reply
      [] OTHER -> "ok"

\* How call number i of the body comes back, s being the session it is sent
\* through.
CallOutcome(tool, prog, i, env, s) ==
    IF prog[i] # "sleep" /\ ~CanSend(s) THEN "raise"
    ELSE IF env.fail = i /\ env.exc \in Responses(tool, prog[i]) THEN env.exc
    ELSE Classify(tool, prog[i], env)

\* The first call that does not come back well; Len(prog) + 1 if all do.
StopAt(tool, prog, env, s) ==
    LET bad == {i \in 1..Len(prog) : CallOutcome(tool, prog, i, env, s) # "ok"}
    IN  IF bad = {} THEN Len(prog) + 1
        ELSE CHOOSE i \in bad : \A j \in bad : i <= j

\* str(e) of the exception a call ends with.
ExcText(how, s) ==
    CASE how = "raise" -> IF CanSend(s) THEN "ProtocolError" ELSE SendExc(s)
      [] how = "malformed" -> "KeyError"
      [] how = "split_error" -> "ImageError"
      [] how = "timeout" -> "TimeoutError"
      [] OTHER -> None

\* Mutation of the records built: every returned record carries a message.
RecordFieldsMessageAlways(tool, how, exc) ==
    LET b == BodyResult([tool |-> tool], how, exc)
    IN  [status |-> b.status,
         error_message |-> IF b.kind = "raised" THEN None ELSE "message"]

\* The status and error_message of the record the body of `tool` builds when it
\* stops in the way `how`.
RecordFields(tool, how, exc) ==
    LET b == BodyResult([tool |-> tool], how, exc)
    IN  [status |-> b.status,
         error_message |->
            CASE b.kind = "raised" -> None
              [] how = "end" -> None
              [] how = "miss" -> "Element not found"
              [] how = "boundary" ->
                    IF tool = "go_back" THEN "No previous page in history"
                    ELSE "No next page in history"
              [] how = "timeout" -> "Navigation timeout"
              [] how = "exception_details" -> "exceptionDetails"
              [] OTHER -> exc]

\* Mutation of type_text's short circuit: every click that did not succeed is
\* reported as an error.
ForwardClickAsError(click_result) ==
    [status |-> "error", error_message |-> click_result.error_message]

\* type_text: a click that did not succeed is forwarded, status and message.
ForwardClick(click_result) ==
    [status |-> click_result.status, error_message |-> click_result.error_message]

\* `click_result = await click_element(selector)` inside type_text: the record
\* click_element builds against the same browser, through session s.
ClickElement(env, s) ==
    LET stop == StopAt("click_element", ClickCalls, env, s)
        how == IF stop > Len(ClickCalls) THEN "end"
               ELSE CallOutcome("click_element", ClickCalls, stop, env, s)
    IN  RecordFields("click_element", how, ExcText(how, s))

\* No click was made on behalf of the call.
NoClick == [status |-> None, error_message |-> None]

\* Mutation of the cap: the slice is missing, all segments are attached.
KeptAll(segments) == segments

\* `truncated = len(segments) > 20; if truncated: segments = segments[:20]`
Truncated(segments) == Len(segments) > SegmentCap

Kept(segments) ==
    IF Truncated(segments) THEN SubSeq(segments, 1, SegmentCap) ELSE segments

\* Mutation of execute_javascript: the response's value is reported on the
\* error paths as well.
ScriptResultOnError(how, value) == value

\* execute_javascript: result=result.get("result", {}).get("value") in the
\* success record, no result in the error records.
ScriptResult(how, value) == IF how = "end" THEN value ELSE None

\* What the caller of the tool gets: an exception, or the value returned.
ToolResult(tool, args, sess, stop, how, exc, env) ==
    LET b == BodyResult([tool |-> tool], how, exc)
        fields == IF tool = "type_text" /\ stop <= Len(ClickCalls)
                  THEN ForwardClick(RecordFields("click_element", how, exc))
                  ELSE RecordFields(tool, how, exc)
        segments == IF tool \in ScreenshotTools /\ how = "end"
                    THEN Segments(env.nseg) ELSE <<>>
    IN  [value |-> IF tool \in {"execute_javascript", "scroll_to"}
                   THEN ScriptResult(how, env.value) ELSE None,
         kind |-> b.kind,
         exc |-> IF b.kind = "raised" THEN exc ELSE None,
         url |-> CASE tool \in InfoTools /\ how = "end" -> env.info.url
                   [] tool = "navigate_to_url" -> args.url
                   [] tool \in {"go_back", "go_forward", "reload_page",
                                "take_screenshot"} -> sess.current_url
                   [] OTHER -> "",
         status |-> IF b.kind = "returned" /\ fields.status \in Statuses
                    THEN fields.status ELSE None,
         title |-> IF tool \in InfoTools /\ how = "end" THEN env.info.title ELSE "",
         error_message |-> fields.error_message,
         shape |-> CASE b.kind = "raised" -> "exception"
                     [] b.status = "content" -> "string"
                     [] b.status = "viewport" -> "viewport"
                     [] b.status = "page_info" -> "page_info"
                     [] tool \in ScreenshotTools -> "record+segments"
                     [] OTHER -> "record",
         content |-> Kept(segments),
         segments_count |-> Len(Kept(segments)),
         truncated |-> tool = "take_screenshot" /\ Truncated(segments)]

\* Mutation of navigate_to_url's session update: the title is not written.
SessionAfterNoTitle(tool, sess, how, env) ==
    IF how # "end" THEN sess
    ELSE CASE tool = "navigate_to_url" ->
                [sess EXCEPT !.current_url = env.info.url,
                             !.navigation_history = Append(@, env.info.url)]
           [] tool \in InfoTools \ {"navigate_to_url"} ->
                [sess EXCEPT !.current_url = env.info.url,
                             !.current_title = env.info.title]
           [] tool = "take_screenshot" ->
                [sess EXCEPT !.last_screenshot_timestamp = "now"]
           [] OTHER -> sess

\* Mutation of the session update: go_back and go_forward append to the
\* history as navigate_to_url does.
SessionAfterBackAppends(tool, sess, how, env) ==
    IF how # "end" THEN sess
    ELSE CASE tool \in {"navigate_to_url", "go_back", "go_forward"}
                    /\ Len(sess.navigation_history) < MaxHistory ->
                [sess EXCEPT !.current_url = env.info.url,
                             !.current_title = env.info.title,
                             !.navigation_history = Append(@, env.info.url)]
           [] tool \in InfoTools ->
                [sess EXCEPT !.current_url = env.info.url,
                             !.current_title = env.info.title]
           [] tool = "take_screenshot" ->
                [sess EXCEPT !.last_screenshot_timestamp = "now"]
           [] OTHER -> sess

\* Mutation of the error paths: a body that does not reach its end drops the
\* session's connection and page.
SessionAfterFailureUnbinds(tool, sess, how, env) ==
    IF how # "end" THEN [sess EXCEPT !.cdp_client = NoConn, !.page = None]
    ELSE CASE tool = "navigate_to_url" ->
                [sess EXCEPT !.current_url = env.info.url,
                             !.current_title = env.info.title,
                             !.navigation_history = Append(@, env.info.url)]
           [] tool \in InfoTools \ {"navigate_to_url"} ->
                [sess EXCEPT !.current_url = env.info.url,
                             !.current_title = env.info.title]
           [] tool = "take_screenshot" ->
                [sess EXCEPT !.last_screenshot_timestamp = "now"]
           [] OTHER -> sess

\* The entries of a Page.getNavigationHistory response with h.entries
\* entries: each has an id the browser chose, which is not its position.
HistoryEntries(h) == [k \in 1..h.entries |-> [id |-> 10 + k]]

\* Mutation of the history step: the entry the page is on.
TargetIndexCurrent(tool, current_index) == current_index

\* go_back: `history["entries"][current_index - 1]`, go_forward:
\* `history["entries"][current_index + 1]`.
TargetIndex(tool, current_index) ==
    IF tool = "go_back" THEN current_index - 1 ELSE current_index + 1

\* No entry: the lookup raises IndexError.
NoEntry == 0

\* `entries[index]["id"]`, index counted from 0, a negative index from the
\* end of the list.
EntryId(entries, index) ==
    IF index >= Len(entries) \/ index < 0 - Len(entries) THEN NoEntry
    ELSE IF index < 0 THEN entries[Len(entries) + index + 1].id
    ELSE entries[index + 1].id

\* The entryId of each Page.navigateToHistoryEntry call among the calls issued.
HistorySteps(tool, issued, h) ==
    LET steps == SelectSeq(issued, LAMBDA pc : pc = "Page.navigateToHistoryEntry")
    IN  [k \in 1..Len(steps) |->
            EntryId(HistoryEntries(h), TargetIndex(tool, h.currentIndex))]

\* build_tool's `max_retries: int = 3`, which BrowserUseToolset.__init__
\* leaves at its default.
DefaultMaxRetries == 3

\* build_tool(browser_session, func, max_retries): the Tool returned holds the
\* wrapper around func, which closes over browser_session, and max_retries.
\* get_tools copies the Tool's max_retries to the definition it hands out.
BuildTool(browser_session, func, max_retries) ==
    [browser_session |-> browser_session, max_retries |-> max_retries,
     function |-> func]

\* `build_tool(self._browser_session, tool) for tool in TOOLS`
ToolDef(t, tool) == BuildTool(WrapperSession(t), tool, DefaultMaxRetries)

\* Mutation of the bodies: a call that failed is issued once more.
IssuedWithRetry(prog, stop) ==
    IF stop > Len(prog) THEN prog
    ELSE SubSeq(prog, 1, stop) \o <<prog[stop]>>

\* The calls a body has issued when it stops at call number stop (past the
\* end: it ran through): every await up to that one, once.  The exception of
\* a failed call leaves the try block, or the body where there is none.
Issued(prog, stop) ==
    SubSeq(prog, 1, IF stop > Len(prog) THEN Len(prog) ELSE stop)

\* Mutation of take_screenshot: the time of the capture is written as soon
\* as the capture was asked for, whatever became of it.
SessionAfterStampAlways(tool, sess, how, env) ==
    IF tool = "take_screenshot"
    THEN [sess EXCEPT !.last_screenshot_timestamp = "now"]
    ELSE sess

\* The session fields once the body has stopped.  The page-info tools run
\* `session.current_url = info["url"]` before `session.current_title =
\* info["title"]`: when the second lookup raises, the first write has been
\* made.
SessionAfter(tool, sess, how, env) ==
    IF how = "malformed" /\ tool \in InfoTools /\ env.info.url # ""
    THEN [sess EXCEPT !.current_url = env.info.url]
    ELSE IF how # "end" THEN sess
    ELSE CASE tool = "navigate_to_url" ->
                [sess EXCEPT !.current_url = env.info.url,
                             !.current_title = env.info.title,
                             !.navigation_history = Append(@, env.info.url)]
           [] tool \in InfoTools \ {"navigate_to_url"} ->
                [sess EXCEPT !.current_url = env.info.url,
                             !.current_title = env.info.title]
           [] tool = "take_screenshot" ->
                [sess EXCEPT !.last_screenshot_timestamp = "now"]
           [] OTHER -> sess

\* call_tool run to completion on chain c: the wrapper installs the session,
\* the body performs its calls until one stops it, the wrapper restores the
\* context, the caller gets the result.
CallTool(c, t, tool, args, env) ==
    /\ frame[c].pc = "idle"
    /\ LET token == CtxGet(ctx, c)
           cx == CtxSet(ctx, c, WrapperSession(t))
           prog == Program(tool, args.clear_first, args.n)
       IN  \E s \in {GetBrowserSession(CtxGet(cx, c)).session} :
           \E stop \in {StopAt(tool, prog, env, s)} :
           \E how \in {IF stop > Len(prog) THEN "end"
                        ELSE CallOutcome(tool, prog, stop, env, s)} :
           \E result \in {ToolResult(tool, args, SessionAfter(tool, session[s], how, env),
                                     stop, how, ExcText(how, s), env)} :
           \E issued \in {Issued(prog, stop)} :
              /\ s \in Toolsets
              /\ (tool = "navigate_to_url" /\ how = "end"
                    => Len(session[s].navigation_history) < MaxHistory)
              /\ session' = [session EXCEPT ![s] = SessionAfter(tool, @, how, env)]
              /\ ctx' = CtxReset(cx, c, token, result.kind = "raised")
              /\ last_call' =
                    [tool |-> tool, owner |-> t,
                     result |-> [result EXCEPT !.kind = WrapperReturn(@)],
                     how |-> how, args |-> args, env |-> env,
                     max_retries |-> ToolDef(t, tool).max_retries,
                     sent |-> CanSend(s),
                     calls |-> issued,
                     click |-> IF tool = "type_text" THEN ClickElement(env, s)
                               ELSE NoClick,
                     keys |-> IF tool = "type_text" THEN KeyEvents(issued, env.mac)
                              ELSE <<>>,
                     inserted |-> IF tool = "type_text"
                                  THEN Inserted(issued, Text(args.n)) ELSE <<>>,
                     pointer |-> IF tool \in {"click_element", "type_text"}
                                 THEN PointerEvents(issued, env.box) ELSE <<>>,
                     stepped |-> IF tool \in {"go_back", "go_forward"}
                                 THEN HistorySteps(tool, issued, env.hist) ELSE <<>>]
              /\ event' = [op |-> "call", who |-> t,
                           raised |-> result.kind = "raised", info |-> tool]
    /\ UNCHANGED <<cdp_client, life, conns, frame, outcome, resolved, segmented, config>>

\* One adapter opened once, its session bound, its tools called one after the
\* other on one chain.
NextTools ==
    \/ life["B"] = "unopened" /\ Aenter("B")
    \/ BindSession("B")
    \/ \E tool \in Catalog \cup FormTools : \E args \in ToolArgs(tool) :
          \E env \in Envs(tool, args) : CallTool("c2", "B", tool, args, env)

SpecTools == Init /\ [][NextTools]_vars

\* Two tools that between them write every field of the session: url, title
\* and history, and the screenshot time.
SessionWriters == {"navigate_to_url", "take_screenshot"}

\* The answers explored when two adapters run side by side: those of calls
\* that reach the browser and are answered well, with one title and one
\* segment per capture.
PairEnvs(tool, args) ==
    {e \in Envs(tool, args) :
        e.fail = 0 /\ e.nseg = 1 /\ e.reply = "ok" /\ e.info.title = "t1"}

\* Two adapters side by side, their steps in any order.  A is entered once,
\* bound, exited any number of times, and its session-writing tools are called
\* on chain c1; B is entered once and bound, and navigates once on chain c2.
NextPair ==
    \/ \E t \in Toolsets : life[t] = "unopened" /\ Aenter(t)
    \/ Aexit("A")
    \/ \E t \in Toolsets : BindSession(t)
    \/ \E tool \in SessionWriters : \E args \in ToolArgs(tool) :
          \E env \in PairEnvs(tool, args) : CallTool("c1", "A", tool, args, env)
    \/ /\ session["B"].navigation_history = <<>>
       /\ \E args \in ToolArgs("navigate_to_url") :
             \E env \in PairEnvs("navigate_to_url", args) :
                CallTool("c2", "B", "navigate_to_url", args, env)

SpecPair == Init /\ [][NextPair]_vars

----------------------------------------------------------------------------
(* The image segmenter: _image_utils.split_image_data, called by the two   *)
(* screenshot tools.  An image is the sequence of its pixel rows, top to    *)
(* bottom, each row standing for its content.                               *)

\* Bounds of the inputs explored.
MaxImageHeight == 9   \* rows of the captured image
MaxBand == 4          \* values of max_height
MaxOverlap == 5       \* values of overlap

\* The media types a capture may have.
MediaTypes == {"image/png", "image/jpeg"}

Min(a, b) == IF a < b THEN a ELSE b

\* The rows of a decoded image of height h: row k carries content k.
Rows(h) == [k \in 1..h |-> k]

\* The bytes of a capture: the encoder's output for the rows.
SourceBytes(h, media_type) ==
    [media_type |-> media_type, rows |-> Rows(h), encoded |-> "capture"]

\* Re-encoding of a cropped band in the capture's media type.
Encode(rows, media_type) ==
    [media_type |-> media_type, rows |-> rows, encoded |-> "segmenter"]

\* Mutation of the slicing loop: it goes on while the next start is above the
\* bottom row, also when the band just cut reached the bottom.
RECURSIVE SliceWhileStartInside(_, _, _, _)
SliceWhileStartInside(rows, y, max_height, overlap) ==
    LET end == Min(y + max_height, Len(rows))
        band == SubSeq(rows, y + 1, end)
        next == y + (max_height - overlap)
    IN  IF next >= Len(rows) THEN <<band>>
        ELSE <<band>> \o SliceWhileStartInside(rows, next, max_height, overlap)

\* The bands cut from row offset y on: each is max_height rows high, the last
\* one clipped to the rows that remain; the next band starts overlap rows
\* above the end of the one before.
RECURSIVE Slice(_, _, _, _)
Slice(rows, y, max_height, overlap) ==
    LET end == Min(y + max_height, Len(rows))
        band == SubSeq(rows, y + 1, end)
    IN  IF end = Len(rows) THEN <<band>>
        ELSE <<band>> \o Slice(rows, end - overlap, max_height, overlap)

\* Mutation of the short-image path: the image is cropped and re-encoded as a
\* band is.
WholeImageReencoded(image_bytes, media_type) ==
    <<Encode(image_bytes.rows, media_type)>>

\* An image no higher than max_height is returned unchanged as one segment.
WholeImage(image_bytes, media_type) == <<image_bytes>>

\* overlap >= max_height is invalid.
OverlapInvalid(max_height, overlap) == overlap >= max_height

\* split_image_data(image_bytes, max_height, overlap, media_type) for the
\* bytes of a decodable image (one row at least): the segments, or the error
\* it ends with and no segment.
SplitImageData(image_bytes, max_height, overlap, media_type) ==
    LET rows == image_bytes.rows
    IN  IF Len(rows) <= max_height
        THEN [segments |-> WholeImage(image_bytes, media_type), error |-> None]
        ELSE IF OverlapInvalid(max_height, overlap)
        THEN [segments |-> <<>>, error |-> "ConfigurationError"]
        ELSE [segments |-> [k \in DOMAIN Slice(rows, 0, max_height, overlap) |->
                              Encode(Slice(rows, 0, max_height, overlap)[k], media_type)],
              error |-> None]

\* One call of the segmenter.
Split(h, max_height, overlap, media_type) ==
    /\ segmented' =
          [called |-> TRUE,
           result |-> SplitImageData(SourceBytes(h, media_type),
                                     max_height, overlap, media_type),
           media_type |-> media_type, max_height |-> max_height,
           overlap |-> overlap, height |-> h]
    /\ UNCHANGED <<cdp_client, session, life, conns, ctx, frame, outcome, event,
                   resolved, last_call, config>>

NextSegmenter ==
    \E h \in 1..MaxImageHeight, max_height \in 1..MaxBand,
       overlap \in 0..MaxOverlap, media_type \in MediaTypes :
        Split(h, max_height, overlap, media_type)

SpecSegmenter == Init /\ [][NextSegmenter]_vars

----------------------------------------------------------------------------
(* Configuration: _config.py BrowserUseSettings and the constructor of      *)
(* BrowserUseToolset.  Values are written as the tests write them.          *)

\* Reading an attribute the object does not have.
NoAttribute == "AttributeError"

\* What a caller may pass for the three options (None: not passed).
ConfigArgs ==
    [max_retries : {None, "20"}, prefix : {None, "param_browser"},
     always_use_new_page : {None, "False", "True"}]

\* What PAI_BROWSER_USE_MAX_RETRIES, _PREFIX and _ALWAYS_USE_NEW_PAGE may hold
\* (None: not set).
ConfigEnvs ==
    [max_retries : {None, "10"}, prefix : {None, "env_browser"},
     always_use_new_page : {None, "False", "True"}]

\* BrowserUseSettings(): each field is the environment's value, None if unset.
BrowserUseSettings(env) ==
    [max_retries |-> env.max_retries, prefix |-> env.prefix,
     always_use_new_page |-> env.always_use_new_page]

\* BrowserUseToolset(cdp_url, **options) followed by a read of the three
\* attributes: __init__ takes cdp_url alone, so an option passed is an
\* unexpected keyword argument; the object constructed has the attributes
\* cdp_url, _cdp_client, _browser_session and _tools, and no other.
Construct(args, env) ==
    /\ config' =
          IF args.max_retries # None \/ args.prefix # None
                \/ args.always_use_new_page # None
          THEN [raised |-> "TypeError", constructed |-> TRUE, args |-> args,
                env |-> env, max_retries |-> NoAttribute,
                prefix |-> NoAttribute, always_use_new_page |-> NoAttribute,
                settings |-> BrowserUseSettings(env)]
          ELSE [raised |-> None, constructed |-> TRUE, args |-> args,
                env |-> env, max_retries |-> NoAttribute,
                prefix |-> NoAttribute, always_use_new_page |-> NoAttribute,
                settings |-> BrowserUseSettings(env)]
    /\ UNCHANGED <<cdp_client, session, life, conns, ctx, frame, outcome, event,
                   resolved, last_call, segmented>>

NextConfig == \E args \in ConfigArgs, env \in ConfigEnvs : Construct(args, env)

SpecConfig == Init /\ [][NextConfig]_vars

----------------------------------------------------------------------------
(* Claims about the adapter's lifecycle and endpoint resolution.           *)

FailedEnter(t) ==
    event'.op = "enter" /\ event'.who = t
        /\ event'.info \in {"resolve_failed", "connect_failed"}

\* C5: the lifecycle is unopened -> open -> closed: open is entered only from
\* unopened, closed is never left, and no enter establishes a connection while
\* the adapter already holds one.
C5_LifecycleStateMachine ==
    [][\A t \in Toolsets :
          /\ (life'[t] = "open" /\ life[t] # "open" => life[t] = "unopened")
          /\ (life[t] = "closed" => life'[t] = "closed")
          /\ (event'.op = "enter" /\ event'.who = t /\ cdp_client[t] # NoConn
                => Len(conns') = Len(conns))]_vars

\* C6: the handle is non-null exactly while the adapter is open.
C6_HandleIffOpen ==
    \A t \in Toolsets : (cdp_client[t] # NoConn) <=> (life[t] = "open")

\* C7: an exit of an adapter that is not open (a repeated exit, or one never
\* opened) tears down nothing, raises nothing and leaves the handle null; every
\* connection of a closed adapter was torn down exactly once.
C7_ExitIdempotent ==
    [][\A t \in Toolsets :
          /\ (event'.op = "exit" /\ event'.who = t /\ life[t] # "open"
                => /\ conns' = conns
                   /\ ~event'.raised
                   /\ cdp_client[t] = NoConn
                   /\ cdp_client'[t] = NoConn)
          /\ (life'[t] = "closed"
                => \A k \in DOMAIN conns' :
                      conns'[k].owner = t => conns'[k].teardowns = 1)]_vars

\* C9: a ws:// or wss:// endpoint is returned unchanged without any HTTP
\* request; any other endpoint costs exactly one GET and yields the
\* webSocketDebuggerUrl field of the JSON object answered, or an error and no
\* URL when the request fails, the body is not JSON or the field is absent.
C9_EndpointResolution ==
    resolved.resp.kind # "no_request" =>
        LET e == resolved.endpoint
            resp == resolved.resp
            r == resolved.result
        IN  IF StartsWith(e, WsPrefix) \/ StartsWith(e, WssPrefix)
            THEN r.tag = "url" /\ r.url = e /\ r.gets = 0
            ELSE /\ r.gets = 1
                 /\ IF resp.kind = "json" /\ resp.data.type = "object" /\ resp.data.has
                    THEN r.tag = "url" /\ r.url = resp.data.value
                    ELSE r.tag = "error" /\ r.exc # None /\ r.url = <<>>

C9_Witness ==
    /\ resolved.resp.kind = "json"
    /\ resolved.resp.data.type = "object"
    /\ resolved.resp.data.has
    /\ ~StartsWith(resolved.endpoint, WsPrefix)
    /\ ~StartsWith(resolved.endpoint, WssPrefix)
    /\ Len(resolved.endpoint) > 0
    /\ resolved.result.tag = "url"
    /\ resolved.result.url = resolved.resp.data.value
    /\ resolved.result.gets = 1

\* C10: an enter that fails in resolution or in connecting raises, leaves the
\* handle, the lifecycle state and the session as they were (null and not open
\* for an adapter not yet opened) and leaves no new connection behind.
C10_FailedEnterLeavesNothing ==
    [][\A t \in Toolsets :
          FailedEnter(t) =>
              /\ event'.raised
              /\ cdp_client'[t] = cdp_client[t]
              /\ (cdp_client[t] = NoConn => cdp_client'[t] = NoConn)
              /\ life'[t] = life[t]
              /\ (life[t] # "open" => life'[t] # "open")
              /\ session' = session
              /\ conns' = conns]_vars

C10_Witness ==
    /\ event.op = "enter"
    /\ event.raised
    /\ event.info = "connect_failed"
    /\ life[event.who] = "unopened"
    /\ cdp_client[event.who] = NoConn
    /\ session[event.who].cdp_client = NoConn

\* C35: after every exit, one whose teardown raised included, the adapter's
\* connection handle is null, and no connection has had a second teardown
\* attempted on it.
C35_ExitClearsHandle ==
    /\ event.op = "exit" => cdp_client[event.who] = NoConn
    /\ \A k \in 1..Len(conns) : conns[k].teardowns <= 1

----------------------------------------------------------------------------
(* Claims about the context bridge and tool dispatch.                      *)

Active(c) == frame[c].pc # "idle"

\* C1: when an invocation of a wrapper has ended, by return or by exception,
\* the ambient slot of its chain holds the value it held before the invocation
\* started, which is none since invocations do not nest.
C1_AmbientRestored ==
    \A c \in Chains :
        ~Active(c) /\ outcome[c].via = "call_tool"
            => CtxGet(ctx, c) = outcome[c].pre /\ outcome[c].pre = None

C1_Witness ==
    \E c \in Chains :
        /\ ~Active(c)
        /\ outcome[c].via = "call_tool"
        /\ outcome[c].kind = "raised"
        /\ outcome[c].issued
        /\ CtxGet(ctx, c) = None

\* C2: throughout a dispatched invocation the session the tool body got from
\* get_browser_session(), and the one a further call of it would get, is the
\* session of the toolset that owns the tool; the caller receives the value
\* the body returned.
C2_OwnSessionAndResult ==
    \A c \in Chains :
        /\ (Active(c) /\ frame[c].wrapped
              => /\ frame[c].session = frame[c].owner
                 /\ GetBrowserSession(CtxGet(ctx, c)).ok
                 /\ GetBrowserSession(CtxGet(ctx, c)).session = frame[c].owner)
        /\ (outcome[c].via = "call_tool"
              => /\ outcome[c].session = outcome[c].owner
                 /\ (outcome[c].kind = "returned" => outcome[c].value = outcome[c].body))

C2_Witness ==
    \E c \in Chains :
        /\ outcome[c].via = "call_tool"
        /\ outcome[c].tool = "type_text"
        /\ outcome[c].owner = "B"
        /\ outcome[c].session = "B"
        /\ outcome[c].kind = "returned"
        /\ outcome[c].value = "success"

\* C3: on a chain with no invocation in progress get_browser_session() fails,
\* and a tool function called directly there ends in that RuntimeError, not in
\* a result, without having run any of its body.
C3_NoSessionOutsideInvocation ==
    \A c \in Chains :
        /\ (~Active(c) => ~GetBrowserSession(CtxGet(ctx, c)).ok)
        /\ (Active(c) => frame[c].wrapped)
        /\ (outcome[c].via = "direct"
              => /\ outcome[c].kind = "raised"
                 /\ outcome[c].exc = "RuntimeError"
                 /\ ~outcome[c].issued)

C3_Witness ==
    \E c, d \in Chains :
        /\ c # d
        /\ Active(d)
        /\ frame[d].issued
        /\ outcome[c].via = "direct"
        /\ outcome[c].tool = "click_element"
        /\ outcome[c].kind = "raised"
        /\ outcome[c].exc = "RuntimeError"

\* C4: a step of one chain never changes the ambient value of another chain,
\* and two invocations in flight on two chains each see their own toolset's
\* session.
C4_ChainLocal ==
    [][\A c, d \in Chains :
          c # d =>
              /\ (event'.op = "tool" /\ event'.who = d
                    => CtxGet(ctx', c) = CtxGet(ctx, c))
              /\ (Active(c)' /\ Active(d)'
                    => /\ CtxGet(ctx', c) = frame'[c].owner
                       /\ CtxGet(ctx', d) = frame'[d].owner)]_vars

C4_Witness ==
    /\ Active("c1") /\ Active("c2")
    /\ frame["c1"].owner # frame["c2"].owner
    /\ frame["c1"].issued /\ frame["c2"].issued
    /\ CtxGet(ctx, "c1") = frame["c1"].owner
    /\ CtxGet(ctx, "c2") = frame["c2"].owner

\* C8: a tool invoked while its adapter is not open (before enter, after exit)
\* issues no protocol call on a connection and does not return success.
C8_NoToolOutsideOpen ==
    \A c \in Chains :
        /\ (Active(c) /\ frame[c].outside => ~frame[c].issued)
        /\ (outcome[c].via = "call_tool" /\ outcome[c].outside
              => ~outcome[c].issued /\ outcome[c].value # "success")

----------------------------------------------------------------------------
(* Claims about the session after enter and about tool results.            *)

\* The last transition was a completed call of `tool`.
Called(tool) == last_call.tool = tool

\* The last completed call was made through a session whose connection was up.
Sendable == last_call.tool # None /\ last_call.sent

IsPrefix(p, q) == Len(p) <= Len(q) /\ SubSeq(q, 1, Len(p)) = p

\* C11: a successful enter leaves the adapter's session bound to the
\* connection it opened, with a page identifier that is not None.
C11_SessionBoundAfterEnter ==
    [][\A t \in Toolsets :
          event'.op = "enter" /\ event'.who = t /\ event'.info = "opened"
              => /\ session'[t].cdp_client = cdp_client'[t]
                 /\ session'[t].page # None]_vars

\* C12: whenever a protocol call of a catalog tool raises, or its response
\* cannot be decoded, the tool returns a status=error record carrying the
\* exception's text; nothing is raised to the caller.
C12_FaultsBecomeErrorResults ==
    last_call.tool \in Catalog /\ Sendable /\ last_call.how \in {"raise", "malformed"}
        => /\ last_call.result.kind = "returned"
           /\ last_call.result.status = "error"
           /\ last_call.result.error_message # None

\* C13: every completed call of a catalog tool returns one result record with
\* a status of the vocabulary; the screenshot tools, and only they, return the
\* record together with a segment list.
C13_OneRecordWithStatus ==
    last_call.tool \in Catalog /\ last_call.result.kind = "returned"
        => /\ last_call.result.shape \in {"record", "record+segments"}
           /\ last_call.result.status \in Statuses
           /\ (last_call.result.shape = "record+segments"
                 <=> last_call.tool \in ScreenshotTools)

\* C14: a returned record with status success carries no error message.
C14_SuccessHasNoErrorMessage ==
    last_call.tool \in Catalog /\ last_call.result.kind = "returned"
        /\ last_call.result.status = "success"
        => last_call.result.error_message = None

C14_Witness ==
    /\ Called("type_text")
    /\ last_call.args.clear_first
    /\ last_call.result.status = "success"
    /\ last_call.result.error_message = None
    /\ Len(last_call.calls) > Len(ClickCalls)

\* C15: when the selector query of a selector-taking tool answers no node (no
\* nodeId, or nodeId 0), the tool returns status not_found without raising and
\* the query is the last call it issues.
C15_SelectorMissIsNotFound ==
    /\ last_call.tool \in SelectorTools
    /\ Sendable
    /\ last_call.env.fail = 0
    /\ (~last_call.env.node.has \/ last_call.env.node.id = 0)
    => /\ last_call.result.kind = "returned"
       /\ last_call.result.status = "not_found"
       /\ last_call.calls = <<"DOM.enable", "DOM.getDocument", "DOM.querySelector">>
       /\ last_call.result.content = <<>>

C15_Witness ==
    /\ Called("take_element_screenshot")
    /\ Sendable
    /\ last_call.env.node = [has |-> TRUE, id |-> 0]
    /\ last_call.result.status = "not_found"
    /\ last_call.calls[Len(last_call.calls)] = "DOM.querySelector"

\* C16: after navigate_to_url returns success the session's current_url and
\* current_title are the url and title of the result, the ones the page
\* reported, and navigation_history is the former history with that url
\* appended.
C16_NavigateUpdatesSession ==
    [][\A t \in Toolsets :
          /\ event'.op = "call" /\ event'.who = t
          /\ last_call'.tool = "navigate_to_url"
          /\ last_call'.result.status = "success"
          => /\ session'[t].current_url = last_call'.result.url
             /\ session'[t].current_title = last_call'.result.title
             /\ last_call'.result.url = last_call'.env.info.url
             /\ last_call'.result.title = last_call'.env.info.title
             /\ session'[t].navigation_history =
                    Append(session[t].navigation_history, last_call'.result.url)]_vars

C16_Witness ==
    /\ Called("navigate_to_url")
    /\ last_call.result.status = "success"
    /\ last_call.args.url = "u1"
    /\ last_call.result.url = "u2"
    /\ session["B"].current_url = "u2"
    /\ session["B"].current_title = "t2"
    /\ session["B"].navigation_history = <<"u1", "u2">>

\* C17: go_back at the oldest entry (currentIndex 0) and go_forward at the
\* newest (currentIndex = number of entries - 1) return status error with their
\* boundary message, issue no Page.navigateToHistoryEntry and leave the session
\* as it was.
C17_HistoryBoundary ==
    [][\A t \in Toolsets :
          /\ event'.op = "call" /\ event'.who = t
          /\ CanSend(t)
          /\ last_call'.env.fail = 0
          /\ \/ /\ last_call'.tool = "go_back"
                /\ last_call'.env.hist.currentIndex = 0
             \/ /\ last_call'.tool = "go_forward"
                /\ last_call'.env.hist.currentIndex = last_call'.env.hist.entries - 1
          => /\ last_call'.result.kind = "returned"
             /\ last_call'.result.status = "error"
             /\ last_call'.result.error_message =
                    (IF last_call'.tool = "go_back"
                     THEN "No previous page in history"
                     ELSE "No next page in history")
             /\ last_call'.calls = <<"Page.getNavigationHistory">>
             /\ session'[t] = session[t]]_vars

C17_Witness ==
    /\ Called("go_forward")
    /\ Sendable
    /\ last_call.env.hist = [currentIndex |-> 1, entries |-> 2]
    /\ last_call.result.error_message = "No next page in history"
    /\ session["B"].current_url = "u1"
    /\ Len(session["B"].navigation_history) = 1

\* C18: one successful navigate_to_url on a fresh session makes the history
\* length 1, and a go_back issued while the session's history length is 1
\* returns the 'no previous page' error and leaves current_url unchanged.
C18_RoundTrip ==
    [][\A t \in Toolsets :
          /\ event'.op = "call" /\ event'.who = t
          /\ CanSend(t)
          /\ last_call'.env.fail = 0
          /\ last_call'.env.info.ok
          => /\ (/\ last_call'.tool = "navigate_to_url"
                 /\ session[t].navigation_history = <<>>
                 => Len(session'[t].navigation_history) = 1)
             /\ (/\ last_call'.tool = "go_back"
                 /\ Len(session[t].navigation_history) = 1
                 => /\ last_call'.result.status = "error"
                    /\ last_call'.result.error_message = "No previous page in history"
                    /\ session'[t].current_url = session[t].current_url)]_vars

\* C19: navigation_history only grows at its end: each step leaves the former
\* history as a prefix, and a step changes it only by a successful
\* navigate_to_url appending the one url it reports.
C19_HistoryAppendOnly ==
    [][\A t \in Toolsets :
          /\ IsPrefix(session[t].navigation_history, session'[t].navigation_history)
          /\ (session'[t].navigation_history # session[t].navigation_history
                <=> /\ event'.op = "call" /\ event'.who = t
                    /\ last_call'.tool = "navigate_to_url"
                    /\ last_call'.result.status = "success")
          /\ (session'[t].navigation_history # session[t].navigation_history
                => session'[t].navigation_history =
                      Append(session[t].navigation_history, last_call'.result.url))]_vars

C19_Witness ==
    /\ Called("go_back")
    /\ last_call.result.status = "success"
    /\ last_call.result.url = "u2"
    /\ session["B"].current_url = "u2"
    /\ session["B"].navigation_history = <<"u1", "u1">>

\* C20: take_screenshot attaches the first min(n, 20) of the n segments the
\* segmenter yields, in order; truncated holds exactly when n > 20 and
\* segments_count is the number of segments attached.
C20_ScreenshotCap ==
    Called("take_screenshot") =>
        /\ Len(last_call.result.content) <= 20
        /\ last_call.result.segments_count = Len(last_call.result.content)
        /\ (last_call.how = "end" =>
              LET n == last_call.env.nseg
              IN  /\ last_call.result.status = "success"
                  /\ last_call.result.content =
                        SubSeq(Segments(n), 1, IF n < 20 THEN n ELSE 20)
                  /\ (last_call.result.truncated <=> n > 20))

C20_Witness ==
    /\ Called("take_screenshot")
    /\ last_call.env.nseg = 21
    /\ last_call.result.status = "success"
    /\ last_call.result.truncated
    /\ last_call.result.segments_count = 20
    /\ last_call.result.content[20] = 20

\* C21: when a screenshot tool attaches fewer segments than the segmenter
\* yielded, the returned record says so: truncated is true.
C21_TruncationReported ==
    /\ last_call.tool \in ScreenshotTools
    /\ last_call.how = "end"
    /\ Len(last_call.result.content) < last_call.env.nseg
    => last_call.result.truncated

\* C26: execute_javascript answered with exceptionDetails returns status error
\* with a message made from the details and no result value; answered
\* without, it returns status success with the response's value field as it
\* is (None when the response has none).
C26_ScriptResult ==
    Called("execute_javascript") /\ Sendable /\ last_call.env.fail = 0
        => IF last_call.env.reply = "exception_details"
           THEN /\ last_call.result.status = "error"
                /\ last_call.result.error_message = "exceptionDetails"
                /\ last_call.result.value = None
           ELSE /\ last_call.result.status = "success"
                /\ last_call.result.error_message = None
                /\ last_call.result.value = last_call.env.value

C26_Witness ==
    /\ Called("execute_javascript")
    /\ Sendable
    /\ last_call.env.reply = "exception_details"
    /\ last_call.env.value = "v2"
    /\ last_call.result.status = "error"
    /\ last_call.result.value = None

\* C27: a step performed on one toolset (enter, exit, binding, tool call)
\* leaves the other toolset's session fields and connection handle as they
\* were.
C27_InstancesIsolated ==
    [][\A t \in Toolsets :
          event'.who # t => /\ session'[t] = session[t]
                            /\ cdp_client'[t] = cdp_client[t]]_vars

C27_Witness ==
    /\ Called("navigate_to_url")
    /\ last_call.owner = "A"
    /\ last_call.result.status = "success"
    /\ session["A"].current_url = "u2"
    /\ session["A"].navigation_history = <<"u2">>
    /\ session["B"].current_url = "u1"
    /\ session["B"].navigation_history = <<"u1">>
    /\ session["A"].last_screenshot_timestamp # None
    /\ cdp_client["B"] # NoConn
    /\ life["A"] = "closed"

\* The last completed call returned a record whose status is not success.
Failed(c) ==
    /\ c.tool \in Catalog
    /\ c.result.kind = "returned"
    /\ c.result.status \in {"error", "not_found", "timeout"}

\* A script evaluation issued now on toolset B's session returns success.
ScriptSucceeds ==
    /\ CallTool("c2", "B", "execute_javascript",
                [n |-> 0, url |-> "", clear_first |-> FALSE, full_page |-> FALSE],
                DefaultEnv("execute_javascript"))
    /\ last_call'.result.status = "success"

\* C28: a tool call that returns error, not_found or timeout leaves the
\* adapter as it was (open if it was open, the same connection handle, the
\* connection untouched), the session bound as it was and the context slot at
\* its former value; and after a failed call that reached the browser a further
\* call can succeed.
C28_FailureDoesNotAbort ==
    /\ [][\A t \in Toolsets :
            event'.op = "call" /\ event'.who = t /\ Failed(last_call')
                => /\ life'[t] = life[t]
                   /\ cdp_client'[t] = cdp_client[t]
                   /\ conns' = conns
                   /\ ctx' = ctx
                   /\ session'[t].cdp_client = session[t].cdp_client
                   /\ session'[t].page = session[t].page]_vars
    /\ [](Failed(last_call) /\ last_call.sent
            => life["B"] = "open" /\ ENABLED ScriptSucceeds)

C28_Witness ==
    /\ Called("navigate_to_url")
    /\ last_call.result.status = "timeout"
    /\ last_call.sent
    /\ life["B"] = "open"
    /\ cdp_client["B"] # NoConn
    /\ session["B"].cdp_client = cdp_client["B"]
    /\ ctx["c2"] = None
    /\ ENABLED ScriptSucceeds

\* C29: a navigation that takes longer than navigate_to_url's timeout
\* argument allows returns a record with status timeout.
C29_LateNavigationTimesOut ==
    Called("navigate_to_url") /\ Sendable /\ last_call.env.late
        => /\ last_call.result.kind = "returned"
           /\ last_call.result.status = "timeout"

\* The centre of the box that bounds the four corners of a border quad, in
\* half pixels.
BoxCentre(border) ==
    LET xs == {border[1], border[3], border[5], border[7]}
        ys == {border[2], border[4], border[6], border[8]}
        Least(S) == CHOOSE m \in S : \A n \in S : m <= n
        Greatest(S) == CHOOSE m \in S : \A n \in S : m >= n
    IN  [x2 |-> Least(xs) + Greatest(xs), y2 |-> Least(ys) + Greatest(ys)]

\* C30: a click_element call that returns status success has dispatched
\* exactly one mousePressed and then exactly one mouseReleased, both at the
\* centre of the element's border box, and has slept after the release as its
\* last step; in every click_element call a release follows a press, and a
\* call whose press fails dispatches no release.
C30_ClickPointerSequence ==
    Called("click_element") =>
        LET calls == last_call.calls
            pointer == last_call.pointer
            centre == BoxCentre(last_call.env.box)
        IN  /\ last_call.result.kind = "returned" /\ last_call.result.status = "success"
                => /\ pointer = <<[type |-> "mousePressed", at |-> centre],
                                  [type |-> "mouseReleased", at |-> centre]>>
                   /\ Len(calls) >= 3
                   /\ calls[Len(calls)] = "sleep"
                   /\ calls[Len(calls) - 1] = "mouseReleased"
                   /\ calls[Len(calls) - 2] = "mousePressed"
            /\ \A k \in 1..Len(pointer) :
                   pointer[k].type = "mouseReleased"
                      => k > 1 /\ pointer[k - 1].type = "mousePressed"
            /\ last_call.how # "end" /\ calls[Len(calls)] = "mousePressed"
                => \A k \in 1..Len(pointer) : pointer[k].type # "mouseReleased"

\* A click on the turned box returned success with the press and the release
\* at the box's centre.
C30_Witness ==
    /\ Called("click_element")
    /\ last_call.result.status = "success"
    /\ last_call.env.box = <<2, 0, 4, 2, 2, 4, 0, 2>>
    /\ Len(last_call.pointer) = 2
    /\ last_call.pointer[2].at = [x2 |-> 4, y2 |-> 4]

\* A click whose press raised returned an error record.
C30_PressFailed ==
    /\ Called("click_element")
    /\ last_call.how # "end"
    /\ last_call.calls[Len(last_call.calls)] = "mousePressed"
    /\ last_call.result.status = "error"

\* The calls type_text makes after its click.
AfterClickCalls == {"Runtime.evaluate", "keyDown.a", "keyUp.a", "keyDown.Backspace",
                    "keyUp.Backspace", "insertText"}

\* C31: a type_text call whose initial click returns a status other than
\* success returns a record with the click's status and error message, and
\* has queried no platform, dispatched no key event and inserted no text.
C31_TypeTextShortCircuit ==
    Called("type_text") /\ last_call.click.status # "success"
        => /\ last_call.result.kind = "returned"
           /\ last_call.result.status = last_call.click.status
           /\ last_call.result.error_message = last_call.click.error_message
           /\ \A k \in 1..Len(last_call.calls) :
                  last_call.calls[k] \notin AfterClickCalls

\* A type_text with text to clear and to type whose click found no element
\* returned not_found.
C31_Witness ==
    /\ Called("type_text")
    /\ last_call.args.clear_first /\ last_call.args.n > 0
    /\ last_call.click.status = "not_found"
    /\ last_call.result.status = "not_found"
    /\ last_call.result.error_message = "Element not found"
    /\ Len(last_call.calls) = 3

\* The positions in the calls issued at which a call of the set S was made.
Positions(S) == {k \in 1..Len(last_call.calls) : last_call.calls[k] \in S}

\* C32: in a type_text call that returns success the click comes first; with
\* clear_first the platform is queried, then key-down 'a' with modifier 8 on
\* a Mac and 2 otherwise, key-up 'a', key-down Backspace and key-up Backspace
\* are dispatched in this order before any insertion; without clear_first no
\* key event and no platform query occur; then one insertText per character
\* of the text is issued, in the order of the text.
C32_TypeTextEventOrder ==
    Called("type_text") /\ last_call.result.kind = "returned"
                        /\ last_call.result.status = "success"
        => LET calls == last_call.calls
               click == Len(ClickCalls)
               strokes == {"keyDown.a", "keyUp.a", "keyDown.Backspace", "keyUp.Backspace"}
           IN  /\ SubSeq(calls, 1, click) = ClickCalls
               /\ \A k \in Positions(AfterClickCalls) : k > click
               /\ last_call.args.clear_first
                     => /\ Positions({"Runtime.evaluate"}) = {click + 1}
                        /\ SubSeq(calls, click + 2, click + 5)
                              = <<"keyDown.a", "keyUp.a", "keyDown.Backspace",
                                  "keyUp.Backspace">>
                        /\ last_call.keys =
                              <<[type |-> "keyDown", key |-> "a",
                                 modifiers |-> IF last_call.env.mac THEN 8 ELSE 2],
                                [type |-> "keyUp", key |-> "a", modifiers |-> 0],
                                [type |-> "keyDown", key |-> "Backspace", modifiers |-> 0],
                                [type |-> "keyUp", key |-> "Backspace", modifiers |-> 0]>>
                        /\ \A i \in Positions({"insertText"}) :
                              \A k \in Positions(strokes) : k < i
               /\ ~last_call.args.clear_first
                     => /\ last_call.keys = <<>>
                        /\ Positions(strokes \cup {"Runtime.evaluate"}) = {}
               /\ Cardinality(Positions({"insertText"})) = last_call.args.n
               /\ last_call.inserted = Text(last_call.args.n)

\* On a Mac a type_text that clears first and types two characters returned
\* success.
C32_Witness ==
    /\ Called("type_text")
    /\ last_call.result.status = "success"
    /\ last_call.args.clear_first /\ last_call.args.n = 2
    /\ last_call.env.mac
    /\ last_call.keys[1].modifiers = 8
    /\ last_call.inserted = <<"a", "b">>

\* A type_text that does not clear returned success.
C32_NoClear ==
    /\ Called("type_text")
    /\ last_call.result.status = "success"
    /\ ~last_call.args.clear_first /\ last_call.args.n = 2

\* The tools that navigate.
NavigationTools == {"navigate_to_url", "go_back", "go_forward", "reload_page"}

\* C34: a navigate_to_url, go_back, go_forward or reload_page call that
\* returns a status other than success leaves the session's current_url,
\* current_title and navigation_history as they were before the call.
C34_NavigationAllOrNothing ==
    [][\A t \in Toolsets :
          /\ event'.op = "call" /\ event'.who = t
          /\ last_call'.tool \in NavigationTools
          /\ last_call'.result.kind = "returned"
          /\ last_call'.result.status # "success"
          => /\ session'[t].current_url = session[t].current_url
             /\ session'[t].current_title = session[t].current_title
             /\ session'[t].navigation_history = session[t].navigation_history]_vars

\* The call that stopped the body failed: it raised or timed out.
CallFailed == last_call.tool # None /\ last_call.how \in {"raise", "timeout"}

\* C33: once a protocol call of a tool invocation has failed, the body has
\* issued the calls of its success path up to the failed one, each once, and
\* none after it; the tool's definition carries max_retries and the number of
\* attempts does not follow it.
C33_NoRetryInsideTool ==
    CallFailed
        => LET prog == Program(last_call.tool, last_call.args.clear_first,
                               last_call.args.n)
               failed == IF last_call.sent THEN last_call.env.fail ELSE 1
           IN  /\ failed \in 1..Len(prog)
               /\ last_call.calls = SubSeq(prog, 1, failed)
               /\ Len(last_call.calls) = failed
               /\ last_call.max_retries = DefaultMaxRetries

\* navigate_to_url whose Page.navigate raised stopped after two calls.
C33_Witness ==
    /\ Called("navigate_to_url")
    /\ last_call.sent
    /\ last_call.how = "raise"
    /\ last_call.env.fail = 2
    /\ last_call.calls = <<"Page.enable", "Page.navigate">>
    /\ last_call.max_retries = 3
    /\ last_call.result.status = "error"

\* The history list was read and the page can step in the call's direction.
CanStep ==
    /\ last_call.tool \in {"go_back", "go_forward"}
    /\ last_call.sent
    /\ last_call.env.fail # 1
    /\ IF last_call.tool = "go_back" THEN last_call.env.hist.currentIndex > 0
       ELSE last_call.env.hist.currentIndex < last_call.env.hist.entries - 1

\* C36: with the history list at index i, a go_back with i > 0 issues exactly
\* one navigate-to-history-entry command, for the entry at index i - 1, and a
\* go_forward with i < entries - 1 exactly one for the entry at index i + 1;
\* a call that returns success has asked the page for url and title after
\* the settle delay, has set the session's current_url and current_title to
\* them and returns them.
C36_HistoryStepping ==
    CanStep
        => LET i == last_call.env.hist.currentIndex
               neighbour == IF last_call.tool = "go_back" THEN i - 1 ELSE i + 1
               sess == session[last_call.owner]
           IN  /\ last_call.stepped = <<HistoryEntries(last_call.env.hist)[neighbour + 1].id>>
               /\ last_call.result.status = "success"
                     => /\ last_call.calls = <<"Page.getNavigationHistory",
                                               "Page.navigateToHistoryEntry",
                                               "sleep", "Runtime.evaluate">>
                        /\ sess.current_url = last_call.env.info.url
                        /\ sess.current_title = last_call.env.info.title
                        /\ last_call.result.url = last_call.env.info.url
                        /\ last_call.result.title = last_call.env.info.title

\* A go_back from the third of three entries stepped to the second and
\* returned what the page reported.
C36_Witness ==
    /\ Called("go_back")
    /\ last_call.env.hist = [currentIndex |-> 2, entries |-> 3]
    /\ last_call.stepped = <<12>>
    /\ last_call.result.status = "success"
    /\ last_call.result.url = "u1"
    /\ session["B"].current_url = "u1"

\* A go_forward from the first of three entries stepped to the second.
C36_Forward ==
    /\ Called("go_forward")
    /\ last_call.env.hist = [currentIndex |-> 0, entries |-> 3]
    /\ last_call.stepped = <<12>>
    /\ last_call.result.status = "success"

\* C37: a take_screenshot or take_element_screenshot call that returns a
\* status other than success attaches no segment, reports segments_count 0
\* and leaves the session's last_screenshot_timestamp as it was; the
\* timestamp changes only in a take_screenshot call that returns success.
C37_ScreenshotFailurePath ==
    [][\A t \in Toolsets :
          /\ /\ event'.op = "call" /\ event'.who = t
             /\ last_call'.tool \in ScreenshotTools
             /\ last_call'.result.status # "success"
             => /\ last_call'.result.content = <<>>
                /\ last_call'.result.segments_count = 0
                /\ session'[t].last_screenshot_timestamp
                      = session[t].last_screenshot_timestamp
          /\ session'[t].last_screenshot_timestamp # session[t].last_screenshot_timestamp
             => /\ event'.op = "call" /\ event'.who = t
                /\ last_call'.tool = "take_screenshot"
                /\ last_call'.result.status = "success"]_vars

\* A take_screenshot whose capture could not be split returned an error with
\* no segment, and the session has no screenshot time.
C37_Witness ==
    /\ Called("take_screenshot")
    /\ last_call.sent
    /\ last_call.how = "split_error"
    /\ last_call.result.status = "error"
    /\ last_call.result.content = <<>>
    /\ last_call.result.segments_count = 0
    /\ session["B"].last_screenshot_timestamp = None

\* A take_element_screenshot that found no element returned not_found.
C37_ElementNotFound ==
    /\ Called("take_element_screenshot")
    /\ last_call.result.status = "not_found"
    /\ last_call.result.segments_count = 0
    /\ session["B"].last_screenshot_timestamp = None

----------------------------------------------------------------------------
(* Claims about the image segmenter.                                       *)

\* The rows of segment k of the last segmenter call, as a set.
SegmentRows(k) ==
    {segmented.result.segments[k].rows[j] :
        j \in 1..Len(segmented.result.segments[k].rows)}

\* C22: an image higher than max_height, cut with 0 <= overlap < max_height,
\* gives ceil((H - V) / (max_height - V)) segments; all but the last are
\* max_height rows high, neighbours share exactly V rows, the last one has the
\* H - (max_height - V) * (count - 1) rows that remain, and together the
\* segments cover every row of the image.
C22_TallImageBands ==
    /\ segmented.called
    /\ segmented.height > segmented.max_height
    /\ segmented.overlap < segmented.max_height
    => LET H == segmented.height
           M == segmented.max_height
           V == segmented.overlap
           segs == segmented.result.segments
           count == Len(segs)
       IN  /\ segmented.result.error = None
           /\ count = ((H - V) + (M - V) - 1) \div (M - V)
           /\ \A k \in 1..(count - 1) : Len(segs[k].rows) = M
           /\ \A k \in 1..(count - 1) :
                 /\ SubSeq(segs[k].rows, M - V + 1, M) = SubSeq(segs[k + 1].rows, 1, V)
                 /\ Cardinality(SegmentRows(k) \cap SegmentRows(k + 1)) = V
           /\ Len(segs[count].rows) = H - (M - V) * (count - 1)
           /\ UNION {SegmentRows(k) : k \in 1..count} = 1..H
           /\ \A k \in 1..count : segs[k].media_type = segmented.media_type

C22_Witness ==
    /\ segmented.called
    /\ segmented.height = 9
    /\ segmented.max_height = 4
    /\ segmented.overlap = 1
    /\ Len(segmented.result.segments) = 3
    /\ segmented.result.segments[2].rows = <<4, 5, 6, 7>>
    /\ segmented.result.segments[3].rows = <<7, 8, 9>>

\* C23: an image of height 0 < H <= max_height comes back as exactly one
\* segment, the source bytes themselves, whatever the overlap.
C23_ShortImageUnchanged ==
    /\ segmented.called
    /\ segmented.height > 0
    /\ segmented.height <= segmented.max_height
    => /\ segmented.result.error = None
       /\ segmented.result.segments =
              <<SourceBytes(segmented.height, segmented.media_type)>>

C23_Witness ==
    /\ segmented.called
    /\ segmented.height = 3
    /\ segmented.max_height = 3
    /\ segmented.overlap = 5
    /\ Len(segmented.result.segments) = 1
    /\ segmented.result.segments[1].encoded = "capture"

\* C24: every call with overlap >= max_height ends with a configuration error
\* and no segment.
C24_InvalidOverlapFails ==
    segmented.called /\ segmented.overlap >= segmented.max_height
        => /\ segmented.result.error = "ConfigurationError"
           /\ segmented.result.segments = <<>>

----------------------------------------------------------------------------
(* Claims about configuration.                                             *)

\* The value an option is to take: the argument if one is passed, else the
\* environment's if one is set, else the library default.
Effective(arg, env_value, default) ==
    IF arg # None THEN arg ELSE IF env_value # None THEN env_value ELSE default

\* C25: each of max_retries, prefix and always_use_new_page of a constructed
\* toolset is the constructor argument if given, else the environment value if
\* set, else the default (3, browser_use, False), each option on its own.
C25_ConfigPrecedence ==
    config.constructed
        => /\ config.raised = None
           /\ config.max_retries =
                 Effective(config.args.max_retries, config.env.max_retries, "3")
           /\ config.prefix =
                 Effective(config.args.prefix, config.env.prefix, "browser_use")
           /\ config.always_use_new_page =
                 Effective(config.args.always_use_new_page,
                           config.env.always_use_new_page, "False")

====
